---- MODULE Spec2Model ----
(***************************************************************************)
(* State-machine model of backend/server.js (src/unnamed/part_000): the    *)
(* JSON file store (readDB / writeDB), the Express handlers, the Socket.IO *)
(* handlers, the web-push dispatcher and the appointment reminder timer.   *)
(*                                                                         *)
(* Every handler of server.js is synchronous (readFileSync/writeFileSync), *)
(* so one handler is one atomic action.  The only asynchronous parts are   *)
(* the web-push deliveries, which settle in later steps.                   *)
(***************************************************************************)
EXTENDS Integers, Sequences, FiniteSets

(***************************************************************************)
(* JavaScript values.  A leaf value is a record [t, n, s]: its type tag,   *)
(* its numeric content and its text content.  Dec(n) is the decimal string *)
(* of n (the result of n.toString()), Str(s) any other text.  Absent marks *)
(* a key that an object does not have; reading it yields undefined.        *)
(***************************************************************************)
Undef  == [t |-> "undefined", n |-> 0, s |-> ""]
Null   == [t |-> "null", n |-> 0, s |-> ""]
NaN    == [t |-> "NaN", n |-> 0, s |-> ""]
Absent == [t |-> "absent", n |-> 0, s |-> ""]
Num(n) == [t |-> "number", n |-> n, s |-> ""]
Str(s) == [t |-> "string", n |-> 0, s |-> s]
Dec(n) == [t |-> "string", n |-> n, s |-> "#"]
True   == [t |-> "boolean", n |-> 1, s |-> ""]
False  == [t |-> "boolean", n |-> 0, s |-> ""]
\* the template literal `prefix${v}`: a string made of the prefix and of v's text
Template(prefix, v) == [t |-> "string", n |-> v.n, s |-> prefix, arg |-> <<v.t, v.s>>]

IsLeaf(v) == "t" \in DOMAIN v

\* obj.key: a missing key reads as undefined
Get(v) == IF IsLeaf(v) /\ v.t = "absent" THEN Undef ELSE v

\* JavaScript truthiness of a leaf value (objects are truthy)
Truthy(v) ==
  IF ~IsLeaf(v) THEN TRUE
  ELSE CASE v.t \in {"undefined", "null", "NaN", "absent"} -> FALSE
         [] v.t = "number" -> v.n # 0
         [] v.t = "string" -> ~(v.s = "")
         [] OTHER -> v.n # 0

\* a || b
Or(a, b) == IF Truthy(a) THEN a ELSE b

\* a === b on leaf values (NaN is not equal to itself)
StrictEq(a, b) == a.t # "NaN" /\ a = b

\* a !== b
StrictNeq(a, b) == ~StrictEq(a, b)

\* Number(v)
Number(v) ==
  CASE v.t = "number" -> v
    [] v.t = "string" /\ v.s = "#" -> Num(v.n)
    [] v.t = "string" /\ v.s = "" -> Num(0)
    [] v.t = "null" -> Num(0)
    [] v.t = "boolean" -> Num(v.n)
    [] OTHER -> NaN

\* n.toString() of the number Date.now()
ToString(n) == Dec(n)

(***************************************************************************)
(* JSON.parse(JSON.stringify(v)): what is read back after v was written.   *)
(* stringify drops the keys whose value is undefined and writes NaN as     *)
(* null.                                                                   *)
(***************************************************************************)
JSONLeaf(v) ==
  CASE v.t = "undefined" -> Absent
    [] v.t = "NaN" -> Null
    [] OTHER -> v

RECURSIVE JSONValue(_)
JSONValue(v) ==
  IF IsLeaf(v) THEN JSONLeaf(v) ELSE [f \in DOMAIN v |-> JSONValue(v[f])]

JSONSeq(q) == [i \in 1..Len(q) |-> JSONValue(q[i])]

(***************************************************************************)
(* The document: one sequence per entity.  medHistory is added lazily by   *)
(* POST /meds/mark: `present` tells whether the key exists.                *)
(***************************************************************************)
EmptyDoc ==
  [users |-> <<>>, patients |-> <<>>, caretakers |-> <<>>,
   notifications |-> <<>>, locationHistory |-> <<>>, meds |-> <<>>,
   journals |-> <<>>, appointments |-> <<>>, webpushSubscriptions |-> <<>>,
   medHistory |-> [present |-> FALSE, items |-> <<>>]]

SeqFields ==
  {"users", "patients", "caretakers", "notifications", "locationHistory",
   "meds", "journals", "appointments", "webpushSubscriptions"}

JSONDoc(d) ==
  [f \in DOMAIN d |->
     IF f = "medHistory"
     THEN [present |-> d.medHistory.present, items |-> JSONSeq(d.medHistory.items)]
     ELSE JSONSeq(d[f])]

\* The file database.json: readable with a parsed content, or absent/unparsable
Unreadable == [ok |-> FALSE, doc |-> EmptyDoc]

\* writeDB(data): the file holds JSON.stringify(data)
writeDB(data) == [ok |-> TRUE, doc |-> JSONDoc(data)]

\* a readDB that returns the empty document without writing it
readDBWithoutRewrite(file) ==
  IF file.ok
  THEN [doc |-> file.doc, file |-> file, reset |-> FALSE]
  ELSE [doc |-> EmptyDoc, file |-> file, reset |-> TRUE]

\* readDB(): the parsed file, or the empty document written over the file.
\* Returns the document and the file as readDB leaves it.
readDB(file) ==
  IF file.ok
  THEN [doc |-> file.doc, file |-> file, reset |-> FALSE]
  ELSE [doc |-> EmptyDoc, file |-> writeDB(EmptyDoc), reset |-> TRUE]

(***************************************************************************)
(* Bounds of the model.                                                    *)
(***************************************************************************)
\* requests (HTTP calls and socket events) handled in one run of the whole server
MaxOps == 2
\* requests handled in one run of a part of the server
MaxAuthOps == 3
MaxMedsOps == 4
MaxApptOps == 2
MaxNotifOps == 3
MaxPushOps == 3
MaxStoreOps == 2
MaxRemindOps == 2
MaxAllOps == 2
\* reminder ticks in one run
MaxTicks == 2
\* periods in one run of the reminder runner with late ticks
MaxPeriods == 3

\* setInterval period and reminder window: 60 * 1000 ms
TICK_MS == 60 * 1000
\* the clock advances in half periods, so that a time can fall on either
\* edge of a reminder window and strictly inside it
StepMs == TICK_MS \div 2
MaxClock == MaxTicks * TICK_MS

VARIABLES
  file,           \* database.json
  db,             \* the global `db`
  clock,          \* Date.now()
  nextTick,       \* when the setInterval callback is due
  VAPID_PUBLIC,   \* process.env.VAPID_PUBLIC || ''
  VAPID_PRIVATE,  \* process.env.VAPID_PRIVATE || ''
  pushes,         \* the calls of sendWebPushNotification, in call order
  out,            \* what the last callback did, in order
  reminders,      \* every appointmentReminder broadcast so far
  deleted,        \* the appointments a DELETE /appointments/:id removed, unless
                  \* an appointment of the same id was created since
  ops             \* requests left in this run

vars ==
  <<file, db, clock, nextTick, VAPID_PUBLIC, VAPID_PRIVATE, pushes, out,
    reminders, deleted, ops>>

(***************************************************************************)
(* The trace of one callback: the request, then each store access,         *)
(* broadcast and push call in program order, then the response.            *)
(***************************************************************************)
Req(name, x)  == [k |-> "req", name |-> name, code |-> 0, x |-> x]
Load(r)       == [k |-> "load", name |-> "", code |-> IF r.reset THEN 1 ELSE 0, x |-> r.doc]
Save(d)       == [k |-> "save", name |-> "", code |-> 0, x |-> d]
Emit(name, x) == [k |-> "emit", name |-> name, code |-> 0, x |-> x]
Res(code, x)  == [k |-> "res", name |-> "", code |-> code, x |-> JSONValue(x)]
ResSeq(code, q) == [k |-> "res", name |-> "", code |-> code, x |-> JSONSeq(q)]

\* res.json(...) without res.status(...)
OK == 200
\* res.status(400) of POST /register and POST /login
BAD_REQUEST == 400

\* The server has started: `let db = readDB()` found no database.json and
\* created it, the timer is armed, the keys are those of the environment.
Boot(publicKeys, privateKeys, budget) ==
  /\ file = readDB(Unreadable).file
  /\ db = readDB(Unreadable).doc
  /\ clock = 0
  /\ nextTick = TICK_MS
  /\ VAPID_PUBLIC \in publicKeys
  /\ VAPID_PRIVATE \in privateKeys
  /\ pushes = <<>>
  /\ out = <<>>
  /\ reminders = {}
  /\ deleted = {}
  /\ ops = budget

Init == Boot({Str(""), Str("pub")}, {Str(""), Str("priv")}, MaxOps)

\* Time passes; the timer callback is never late, so the clock does not pass
\* nextTick before Tick has run.
AdvanceWithin(limit) ==
  /\ clock + StepMs <= nextTick
  /\ clock + StepMs <= limit
  /\ clock' = clock + StepMs
  /\ UNCHANGED <<file, db, nextTick, VAPID_PUBLIC, VAPID_PRIVATE, pushes, out, reminders, deleted, ops>>

Advance == AdvanceWithin(MaxClock)

\* Time passes until the timer is due for the first time
AdvanceToTick ==
  /\ clock < nextTick
  /\ nextTick = TICK_MS
  /\ clock' = nextTick
  /\ UNCHANGED <<file, db, nextTick, VAPID_PUBLIC, VAPID_PRIVATE, pushes, out, reminders, deleted, ops>>

\* database.json is removed or damaged from outside the process
Corrupt ==
  /\ file.ok
  /\ file' = Unreadable
  /\ UNCHANGED <<db, clock, nextTick, VAPID_PUBLIC, VAPID_PRIVATE, pushes, out, reminders, deleted, ops>>

(***************************************************************************)
(* sendWebPushNotification(payload), called with the file as the handler   *)
(* left it.  One record per call: the subscriptions read, the number of    *)
(* webpush.sendNotification calls made for each, how each delivery ended,  *)
(* and the state of the promise the async function returned.               *)
(***************************************************************************)
\* p.catch(err => console.warn(...)): a rejected delivery becomes fulfilled
Caught(outcome) == IF outcome = "rejected" THEN "fulfilled" ELSE outcome

\* Promise.allSettled(list): pending until every promise of the list settled
AllSettled(list) ==
  IF \E k \in 1..Len(list) : list[k] = "pending" THEN "pending" ELSE "fulfilled"

\* a join by Promise.all of the bare deliveries: the first rejection rejects it
JoinFailFast(delivery) ==
  IF \E k \in 1..Len(delivery) : delivery[k] = "rejected" THEN "rejected"
  ELSE AllSettled(delivery)

\* the promise of the async function, from the state of its deliveries
JoinDeliveries(delivery) ==
  AllSettled([k \in 1..Len(delivery) |-> Caught(delivery[k])])

\* a check that skips only when both keys are missing
ConfiguredEither == Truthy(VAPID_PUBLIC) \/ Truthy(VAPID_PRIVATE)

\* if (!VAPID_PUBLIC || !VAPID_PRIVATE)
Configured == Truthy(VAPID_PUBLIC) /\ Truthy(VAPID_PRIVATE)

\* subs.map(s => webpush.sendNotification(s, ...)): the attempts made in the call
StartDeliveries(subs, configured) ==
  [attempts |-> [k \in 1..Len(subs) |-> IF configured THEN 1 ELSE 0],
   delivery |-> [k \in 1..Len(subs) |-> IF configured THEN "pending" ELSE "none"]]

sendWebPushNotification(payload, f) ==
  LET r == readDB(f)
      subs == r.doc.webpushSubscriptions
      st == StartDeliveries(subs, Configured)
  IN [doc |-> r.doc, file |-> r.file, load |-> Load(r),
      call |-> [payload |-> payload, subs |-> subs, configured |-> Configured,
                attempts |-> st.attempts, delivery |-> st.delivery,
                promise |-> IF Configured THEN JoinDeliveries(st.delivery)
                            ELSE "fulfilled"]]

\* the trace entry of one call: the file as the call found it and left it
PushEv(n, f, p) ==
  [k |-> "push", name |-> "", code |-> 0,
   x |-> [payload |-> n, before |-> f, after |-> p.file, call |-> p.call]]

\* One web-push delivery ends, well or badly
Settle(i, k, outcome) ==
  /\ pushes[i].delivery[k] = "pending"
  /\ LET dl == [pushes[i].delivery EXCEPT ![k] = outcome]
     IN pushes' = [pushes EXCEPT ![i].delivery = dl, ![i].promise = JoinDeliveries(dl)]
  /\ UNCHANGED <<file, db, clock, nextTick, VAPID_PUBLIC, VAPID_PRIVATE, out, reminders, deleted, ops>>

(***************************************************************************)
(* Common part of every request handler: its trace, the document left in   *)
(* `db`, the file it leaves, and the push calls it made.                   *)
(***************************************************************************)
Respond(trace, newDb, newFile, calls) ==
  /\ ops > 0
  /\ ops' = ops - 1
  /\ out' = trace
  /\ db' = newDb
  /\ file' = newFile
  /\ pushes' = pushes \o calls
  /\ UNCHANGED <<clock, nextTick, VAPID_PUBLIC, VAPID_PRIVATE, reminders>>

Handle(trace, newDb, newFile, calls) ==
  /\ Respond(trace, newDb, newFile, calls)
  /\ UNCHANGED deleted

\* The handler throws: nothing catches the exception of a Socket.IO listener,
\* so the process ends. No further request is handled and the timer is gone.
NO_TIMER == 0 - 1
Throw(what) == [k |-> "throw", name |-> what, code |-> 0, x |-> Undef]
Crash(trace, newDb, newFile) ==
  /\ ops > 0
  /\ ops' = 0
  /\ nextTick' = NO_TIMER
  /\ out' = trace
  /\ db' = newDb
  /\ file' = newFile
  /\ UNCHANGED <<clock, VAPID_PUBLIC, VAPID_PRIVATE, pushes, reminders, deleted>>

Request(trace, newDb, newFile) == Handle(trace, newDb, newFile, <<>>)

\* req.params.id of a URL built from a record's id: always a string
ParamOf(id) == IF id.t = "number" THEN Dec(id.n) ELSE id
ParamsOf(q) == {ParamOf(Get(q[i].id)) : i \in 1..Len(q)} \cup {Str("none")}

(***************************************************************************)
(* Socket.IO handlers                                                      *)
(***************************************************************************)
Join(data) ==
  Request(<<Req("socket join", data)>>, db, file)

LocationPayloads ==
  {[userId |-> Str("u1"), lat |-> Num(1), lng |-> Num(2), timestamp |-> ts] :
     ts \in {Absent, Num(7)}}

UpdateLocation(payload) ==
  LET r == readDB(file)
  IN IF payload = Undef
     \* payload.userId of undefined: TypeError after line 77, before the push
     THEN Crash(<<Req("socket updateLocation", payload), Load(r), Throw("TypeError")>>,
                r.doc, r.file)
     ELSE
  LET point == [id |-> Num(clock), userId |-> Get(payload.userId), lat |-> Get(payload.lat),
                lng |-> Get(payload.lng),
                time |-> Or(Get(payload.timestamp), Num(clock))]
      d == [r.doc EXCEPT !.locationHistory = Append(@, point)]
  IN Request(<<Req("socket updateLocation", payload), Load(r), Save(d),
               Emit("locationUpdate", payload)>>, d, writeDB(d))

SosPayloads ==
  {[from |-> Str("u1"), name |-> nm, time |-> Absent] : nm \in {Absent, Str("Ann")}}

\* a handler that broadcasts before it stores the notification
SocketSosEmitFirst(payload) ==
  LET r == readDB(file)
  IN IF payload = Undef
     THEN Crash(<<Req("socket sos", payload), Load(r), Throw("TypeError")>>, r.doc, r.file)
     ELSE
  LET n == [id |-> Num(clock), type |-> Str("sos"),
            message |-> Template("SOS from ", Or(Get(payload.name), Get(payload.from))),
            from |-> Get(payload.from), time |-> Or(Get(payload.time), Num(clock)),
            read |-> False]
      d == [r.doc EXCEPT !.notifications = Append(@, n)]
      p == sendWebPushNotification(n, writeDB(d))
  IN Handle(<<Req("socket sos", payload), Load(r), Emit("sos", payload),
              Emit("notification", n), Save(d), PushEv(n, writeDB(d), p), p.load>>,
            p.doc, p.file, <<p.call>>)

SocketSos(payload) ==
  LET r == readDB(file)
  IN IF payload = Undef
     \* payload.name of undefined: TypeError after line 86
     THEN Crash(<<Req("socket sos", payload), Load(r), Throw("TypeError")>>, r.doc, r.file)
     ELSE
  LET n == [id |-> Num(clock), type |-> Str("sos"),
            message |-> Template("SOS from ", Or(Get(payload.name), Get(payload.from))),
            from |-> Get(payload.from), time |-> Or(Get(payload.time), Num(clock)),
            read |-> False]
      d == [r.doc EXCEPT !.notifications = Append(@, n)]
      p == sendWebPushNotification(n, writeDB(d))
  IN Handle(<<Req("socket sos", payload), Load(r), Save(d), Emit("sos", payload),
              Emit("notification", n), PushEv(n, writeDB(d), p), p.load>>,
            p.doc, p.file, <<p.call>>)

JournalPayloads ==
  {[entry |-> [text |-> Str("hi")], author |-> Str("Ann")]}

SocketJournal(payload) ==
  LET r == readDB(file)
  IN IF payload = Undef
     \* payload.entry of undefined: TypeError after line 98
     THEN Crash(<<Req("socket journal", payload), Load(r), Throw("TypeError")>>, r.doc, r.file)
     ELSE
  LET d1 == [r.doc EXCEPT !.journals = Append(@, payload.entry)]
      n == [id |-> Num(clock), type |-> Str("journal"),
            message |-> Template("New journal from ", Get(payload.author)),
            time |-> Num(clock), read |-> False]
      d2 == [d1 EXCEPT !.notifications = Append(@, n)]
      p == sendWebPushNotification(n, writeDB(d2))
  IN Handle(<<Req("socket journal", payload), Load(r), Save(d1), Emit("journal", payload),
              Save(d2), Emit("notification", n), PushEv(n, writeDB(d2), p), p.load>>,
            p.doc, p.file, <<p.call>>)

MedPayloads == {[action |-> Str("taken"), medId |-> Dec(0)]}

SocketMedicationUpdate(payload) ==
  LET n == [id |-> Num(clock), type |-> Str("med"), message |-> Str("Medication updated"),
            payload |-> payload, time |-> Num(clock), read |-> False]
      r == readDB(file)
      d == [r.doc EXCEPT !.notifications = Append(@, n)]
      p == sendWebPushNotification(n, writeDB(d))
  IN Handle(<<Req("socket medicationUpdate", payload), Emit("medicationUpdate", payload),
              Load(r), Save(d), Emit("notification", n), PushEv(n, writeDB(d), p), p.load>>,
            p.doc, p.file, <<p.call>>)

(***************************************************************************)
(* POST /register and POST /login                                          *)
(***************************************************************************)
Names == {Str("Ann")}
Roles == {Str("patient")}
Emails == {Str("a@x"), Str("b@x"), Undef}
Passwords == {Str("pw"), Undef}

\* a lookup that stops at the first user
EmailExistsFirstOnly(users, email) ==
  Len(users) > 0 /\ StrictEq(Get(users[1].email), email)

\* db.users.find(u => u.email === email): is there such a user
EmailExists(users, email) ==
  \E i \in 1..Len(users) : StrictEq(Get(users[i].email), email)

\* a rejection that forgets res.status(400)
RejectRegisterAsOk == Res(OK, [message |-> Str("Email already exists")])

\* res.status(400).json({ message: 'Email already exists' })
RejectRegister == Res(BAD_REQUEST, [message |-> Str("Email already exists")])

\* res.status(400).json({ message: 'Invalid credentials' })
RejectLogin == Res(BAD_REQUEST, [message |-> Str("Invalid credentials")])

Register(role, name, email, password) ==
  LET r == readDB(file)
      body == [role |-> role, name |-> name, email |-> email, password |-> password]
      newUser == [id |-> Num(clock), role |-> role, name |-> name, email |-> email,
                  password |-> password]
      d == [r.doc EXCEPT !.users = Append(@, newUser)]
  IN IF EmailExists(r.doc.users, email)
     THEN Request(<<Req("POST /register", body), Load(r), RejectRegister>>, r.doc, r.file)
     ELSE Request(<<Req("POST /register", body), Load(r), Save(d),
                    Res(OK, [message |-> Str("Registered successfully")])>>,
                  d, writeDB(d))

\* db.users.find(u => u.email === email && u.password === password)
FindUser(users, email, password) ==
  LET hits == {i \in 1..Len(users) :
                 /\ StrictEq(Get(users[i].email), email)
                 /\ StrictEq(Get(users[i].password), password)}
  IN IF hits = {} THEN 0 ELSE CHOOSE i \in hits : \A j \in hits : i <= j

Login(email, password) ==
  LET r == readDB(file)
      body == [email |-> email, password |-> password]
      i == FindUser(r.doc.users, email, password)
  IN IF i = 0
     THEN Request(<<Req("POST /login", body), Load(r), RejectLogin>>, r.doc, r.file)
     ELSE Request(<<Req("POST /login", body), Load(r), Res(OK, r.doc.users[i])>>,
                  r.doc, r.file)

(***************************************************************************)
(* POST /uploadPerson                                                      *)
(***************************************************************************)
Photos == {Null, Str("f1")}

UploadPerson(name, relation, phone, ownerId, photo) ==
  LET r == readDB(file)
      body == [name |-> name, relation |-> relation, phone |-> phone, ownerId |-> ownerId]
      person == [id |-> Num(clock), ownerId |-> ownerId, name |-> name,
                 relation |-> relation, phone |-> phone, photo |-> photo]
      d == [r.doc EXCEPT !.patients = Append(@, person)]
  IN Request(<<Req("POST /uploadPerson", body), Load(r), Save(d),
               Res(OK, [message |-> Str("Person saved successfully")])>>, d, writeDB(d))

(***************************************************************************)
(* /meds                                                                   *)
(***************************************************************************)
MedNames == {Str("aspirin"), Undef}

GetMeds ==
  LET r == readDB(file)
  IN Request(<<Req("GET /meds", Undef), Load(r), ResSeq(OK, r.doc.meds)>>, r.doc, r.file)

PostMeds(name, dose, time, forUser) ==
  LET r == readDB(file)
      body == [name |-> name, dose |-> dose, time |-> time, forUser |-> forUser]
      med == [id |-> ToString(clock), name |-> name, dose |-> dose, time |-> time,
              forUser |-> Or(forUser, Null), createdAt |-> Num(clock)]
      d == [r.doc EXCEPT !.meds = Append(@, med)]
  IN Request(<<Req("POST /meds", body), Load(r), Save(d),
               Emit("medicationUpdate", [med |-> med, action |-> Str("added")]),
               Res(OK, med)>>, d, writeDB(d))

\* a removal by findIndex and splice: only the first match goes
RemoveFirstMatch(q, id) ==
  LET hits == {i \in 1..Len(q) : StrictEq(Get(q[i].id), id)}
      first == CHOOSE i \in hits : \A j \in hits : i <= j
  IN IF hits = {} THEN q ELSE SubSeq(q, 1, first - 1) \o SubSeq(q, first + 1, Len(q))

\* (db.meds || []).filter(m => m.id !== id)
FilterOutId(q, id) == SelectSeq(q, LAMBDA m : StrictNeq(Get(m.id), id))

DeleteMeds(id) ==
  LET r == readDB(file)
      d == [r.doc EXCEPT !.meds = FilterOutId(@, id)]
  IN Request(<<Req("DELETE /meds/:id", id), Load(r), Save(d),
               Emit("medicationUpdate", [action |-> Str("removed"), id |-> id]),
               Res(OK, [ok |-> True])>>, d, writeDB(d))

\* a handler that stores the new record alone: db.medHistory = [record]
MarkMedOverwrites(medId, by) ==
  LET r == readDB(file)
      body == [medId |-> medId, by |-> by]
      record == [id |-> ToString(clock), medId |-> medId, by |-> by, time |-> Num(clock)]
      d == [r.doc EXCEPT !.medHistory = [present |-> TRUE, items |-> <<record>>]]
  IN Request(<<Req("POST /meds/mark", body), Load(r), Save(d),
               Emit("medicationUpdate", [action |-> Str("taken"), medId |-> medId, by |-> by]),
               Res(OK, [ok |-> True, record |-> record])>>, d, writeDB(d))

MarkMed(medId, by) ==
  LET r == readDB(file)
      body == [medId |-> medId, by |-> by]
      hist == IF r.doc.medHistory.present THEN r.doc.medHistory.items ELSE <<>>
      record == [id |-> ToString(clock), medId |-> medId, by |-> by, time |-> Num(clock)]
      d == [r.doc EXCEPT !.medHistory = [present |-> TRUE, items |-> Append(hist, record)]]
  IN Request(<<Req("POST /meds/mark", body), Load(r), Save(d),
               Emit("medicationUpdate", [action |-> Str("taken"), medId |-> medId, by |-> by]),
               Res(OK, [ok |-> True, record |-> record])>>, d, writeDB(d))

(***************************************************************************)
(* /journals                                                               *)
(***************************************************************************)
GetJournals ==
  LET r == readDB(file)
  IN Request(<<Req("GET /journals", Undef), Load(r), ResSeq(OK, r.doc.journals)>>,
             r.doc, r.file)

\* a handler that appends the notification to the document as it was loaded
PostJournalsFromLoaded(author, text) ==
  LET r == readDB(file)
      body == [author |-> author, text |-> text]
      entry == [id |-> ToString(clock), author |-> author, text |-> text, time |-> Num(clock)]
      d1 == [r.doc EXCEPT !.journals = Append(@, entry)]
      n == [id |-> Num(clock), type |-> Str("journal"),
            message |-> Template("New journal by ", author),
            time |-> Num(clock), read |-> False]
      d2 == [r.doc EXCEPT !.notifications = Append(@, n)]
      p == sendWebPushNotification(n, writeDB(d2))
  IN Handle(<<Req("POST /journals", body), Load(r), Save(d1),
              Emit("journal", [entry |-> entry, author |-> author]),
              Save(d2), Emit("notification", n), PushEv(n, writeDB(d2), p), p.load, Res(OK, entry)>>,
            p.doc, p.file, <<p.call>>)

PostJournals(author, text) ==
  LET r == readDB(file)
      body == [author |-> author, text |-> text]
      entry == [id |-> ToString(clock), author |-> author, text |-> text, time |-> Num(clock)]
      d1 == [r.doc EXCEPT !.journals = Append(@, entry)]
      n == [id |-> Num(clock), type |-> Str("journal"),
            message |-> Template("New journal by ", author),
            time |-> Num(clock), read |-> False]
      d2 == [d1 EXCEPT !.notifications = Append(@, n)]
      p == sendWebPushNotification(n, writeDB(d2))
  IN Handle(<<Req("POST /journals", body), Load(r), Save(d1),
              Emit("journal", [entry |-> entry, author |-> author]),
              Save(d2), Emit("notification", n), PushEv(n, writeDB(d2), p), p.load, Res(OK, entry)>>,
            p.doc, p.file, <<p.call>>)

(***************************************************************************)
(* /appointments                                                           *)
(***************************************************************************)
Titles == {Str("dentist")}
\* the `time` of a request: a number or its decimal string, at or after the
\* clock, or something that is no number
TimeInputs ==
  {Num(clock), Num(clock + StepMs), Num(clock + TICK_MS), Dec(clock + TICK_MS + StepMs),
   Str("soon"), Undef}

GetAppointments ==
  LET r == readDB(file)
  IN Request(<<Req("GET /appointments", Undef), Load(r), ResSeq(OK, r.doc.appointments)>>,
             r.doc, r.file)

PostAppointments(title, time, forUser, notes) ==
  LET r == readDB(file)
      body == [title |-> title, time |-> time, forUser |-> forUser, notes |-> notes]
      appt == [id |-> ToString(clock), title |-> title, time |-> Number(time),
               forUser |-> Or(forUser, Null), notes |-> Or(notes, Str("")),
               createdAt |-> Num(clock)]
      d == [r.doc EXCEPT !.appointments = Append(@, appt)]
  IN /\ Respond(<<Req("POST /appointments", body), Load(r), Save(d),
                  Emit("appointmentCreated", appt), Res(OK, appt)>>, d, writeDB(d), <<>>)
     /\ deleted' = {a \in deleted : a.id # appt.id}

\* a DELETE that filters `db` and answers without writeDB(db)
DeleteAppointmentsUnsaved(id) ==
  LET r == readDB(file)
      d == [r.doc EXCEPT !.appointments = FilterOutId(@, id)]
      gone == {r.doc.appointments[i] : i \in 1..Len(r.doc.appointments)}
                \ {d.appointments[i] : i \in 1..Len(d.appointments)}
  IN /\ Respond(<<Req("DELETE /appointments/:id", id), Load(r), Res(OK, [ok |-> True])>>,
                d, r.file, <<>>)
     /\ deleted' = deleted \cup gone

DeleteAppointments(id) ==
  LET r == readDB(file)
      d == [r.doc EXCEPT !.appointments = FilterOutId(@, id)]
      gone == {r.doc.appointments[i] : i \in 1..Len(r.doc.appointments)}
                \ {d.appointments[i] : i \in 1..Len(d.appointments)}
  IN /\ Respond(<<Req("DELETE /appointments/:id", id), Load(r), Save(d),
                  Res(OK, [ok |-> True])>>, d, writeDB(d), <<>>)
     /\ deleted' = deleted \cup gone

(***************************************************************************)
(* /notifications                                                          *)
(***************************************************************************)
GetNotifications ==
  LET r == readDB(file)
  IN Request(<<Req("GET /notifications", Undef), Load(r), ResSeq(OK, r.doc.notifications)>>,
             r.doc, r.file)

\* a DELETE that deletes: the matching notifications are filtered out
MarkReadByRemoving(q, id) == SelectSeq(q, LAMBDA n : StrictNeq(Get(n.id), id))

\* (db.notifications || []).map(n => n.id === id ? {...n, read: true} : n)
MarkRead(q, id) ==
  [i \in 1..Len(q) |->
     IF StrictEq(Get(q[i].id), id) THEN [q[i] EXCEPT !.read = True] ELSE q[i]]

DeleteNotifications(id) ==
  LET r == readDB(file)
      d == [r.doc EXCEPT !.notifications = MarkRead(@, id)]
  IN Request(<<Req("DELETE /notifications/:id", id), Load(r), Save(d),
               Res(OK, [ok |-> True])>>, d, writeDB(d))

(***************************************************************************)
(* POST /sos and POST /subscribe                                           *)
(***************************************************************************)
\* a handler that pushes the notification to `db` and forgets writeDB(db)
PostSosUnsaved(from, name) ==
  LET r == readDB(file)
      body == [from |-> from, name |-> name]
      n == [id |-> ToString(clock), type |-> Str("sos"),
            message |-> Template("SOS from ", Or(name, from)),
            from |-> from, time |-> Num(clock), read |-> False]
      p == sendWebPushNotification(n, r.file)
  IN Handle(<<Req("POST /sos", body), Load(r),
              Emit("sos", [from |-> from, name |-> name, time |-> Num(clock)]),
              Emit("notification", n), PushEv(n, r.file, p), p.load, Res(OK, [ok |-> True])>>,
            p.doc, p.file, <<p.call>>)

PostSos(from, name) ==
  LET r == readDB(file)
      body == [from |-> from, name |-> name]
      n == [id |-> ToString(clock), type |-> Str("sos"),
            message |-> Template("SOS from ", Or(name, from)),
            from |-> from, time |-> Num(clock), read |-> False]
      d == [r.doc EXCEPT !.notifications = Append(@, n)]
      p == sendWebPushNotification(n, writeDB(d))
  IN Handle(<<Req("POST /sos", body), Load(r), Save(d),
              Emit("sos", [from |-> from, name |-> name, time |-> Num(clock)]),
              Emit("notification", n), PushEv(n, writeDB(d), p), p.load, Res(OK, [ok |-> True])>>,
            p.doc, p.file, <<p.call>>)

Subscriptions == {[endpoint |-> Str("e1")], [endpoint |-> Str("e2")]}

Subscribe(sub) ==
  LET r == readDB(file)
      d == [r.doc EXCEPT !.webpushSubscriptions = Append(@, sub)]
  IN Request(<<Req("POST /subscribe", sub), Load(r), Save(d), Res(OK, [ok |-> True])>>,
             d, writeDB(d))

(***************************************************************************)
(* The appointment reminder runner: setInterval(..., 60 * 1000)            *)
(***************************************************************************)
\* a window of two periods
IsSoonTwoPeriods(a, now) ==
  LET t == Get(a.time)
  IN /\ Truthy(t)
     /\ Number(t).t = "number"
     /\ Number(t).n > now
     /\ Number(t).n <= now + 2 * TICK_MS

\* a window that is closed at both ends: a.time >= now
IsSoonClosed(a, now) ==
  LET t == Get(a.time)
  IN /\ Truthy(t)
     /\ Number(t).t = "number"
     /\ Number(t).n >= now
     /\ Number(t).n <= now + TICK_MS

\* a.time && a.time > now && a.time <= now + (60 * 1000)
IsSoon(a, now) ==
  LET t == Get(a.time)
  IN /\ Truthy(t)
     /\ Number(t).t = "number"
     /\ Number(t).n > now
     /\ Number(t).n <= now + TICK_MS

\* soon.forEach(a => ...): st is the state the earlier iterations left
RECURSIVE RemindAll(_, _)
RemindAll(soon, st) ==
  IF soon = <<>> THEN st
  ELSE LET a == Head(soon)
           n == [id |-> ToString(clock), type |-> Str("appointment"),
                 message |-> Template("Upcoming: ", Get(a.title)),
                 appointment |-> a, time |-> Num(clock), read |-> False]
           d == [st.doc EXCEPT !.notifications = Append(@, n)]
           p == sendWebPushNotification(n, writeDB(d))
       IN RemindAll(Tail(soon),
            [doc |-> p.doc, file |-> p.file,
             trace |-> st.trace \o <<Save(d), Emit("appointmentReminder", [appointment |-> a]),
                                     Emit("notification", n), PushEv(n, writeDB(d), p), p.load>>,
             calls |-> Append(st.calls, p.call),
             reminded |-> st.reminded \cup {[appointment |-> a, now |-> clock]}])

\* the callback of the timer, run when Date.now() is `clock`
Scan ==
  /\ LET r == readDB(file)
         soon == SelectSeq(r.doc.appointments, LAMBDA a : IsSoon(a, clock))
         st == RemindAll(soon, [doc |-> r.doc, file |-> r.file,
                                trace |-> <<Req("tick", Num(clock)), Load(r)>>,
                                calls |-> <<>>, reminded |-> {}])
     IN /\ db' = st.doc
        /\ file' = st.file
        /\ out' = st.trace
        /\ pushes' = pushes \o st.calls
        /\ reminders' = reminders \cup st.reminded
  /\ nextTick' = clock + TICK_MS
  /\ UNCHANGED <<clock, VAPID_PUBLIC, VAPID_PRIVATE, deleted, ops>>

\* the timer fires on time
Tick ==
  /\ clock = nextTick
  /\ Scan

\* The event loop was busy: time passes the due time, the callback runs late,
\* and the next one is due a period after this run.
AdvanceLate ==
  /\ nextTick # NO_TIMER
  /\ clock + StepMs <= MaxPeriods * TICK_MS
  /\ clock' = clock + StepMs
  /\ UNCHANGED <<file, db, nextTick, VAPID_PUBLIC, VAPID_PRIVATE, pushes, out, reminders, deleted, ops>>

LateTick ==
  /\ nextTick # NO_TIMER
  /\ clock > nextTick
  /\ Scan

(***************************************************************************)
(* The whole server                                                        *)
(***************************************************************************)
Deliver ==
  \E i \in 1..Len(pushes) : \E k \in 1..Len(pushes[i].delivery) :
    \E outcome \in {"fulfilled", "rejected"} : Settle(i, k, outcome)

AuthRequest ==
  \/ \E ro \in Roles, na \in Names, em \in Emails, pw \in Passwords : Register(ro, na, em, pw)
  \/ \E em \in Emails, pw \in Passwords : Login(em, pw)

MedsRequest ==
  \/ GetMeds
  \/ \E na \in MedNames : PostMeds(na, Str("1 pill"), Str("08:00"), Undef)
  \/ \E id \in ParamsOf(readDB(file).doc.meds) : DeleteMeds(id)
  \/ MarkMed(Dec(0), Str("u1"))

JournalRequest ==
  \/ GetJournals
  \/ PostJournals(Str("Ann"), Str("hi"))

AppointmentRequest ==
  \/ GetAppointments
  \/ \E ti \in Titles, tm \in TimeInputs : PostAppointments(ti, tm, Undef, Undef)
  \/ \E id \in ParamsOf(readDB(file).doc.appointments) : DeleteAppointments(id)

NotificationRequest ==
  \/ GetNotifications
  \/ \E id \in ParamsOf(readDB(file).doc.notifications) : DeleteNotifications(id)
  \/ \E na \in {Undef, Str("Ann")} : PostSos(Str("u1"), na)

SocketEvent ==
  \/ Join([userId |-> Str("u1")])
  \/ \E pl \in LocationPayloads : UpdateLocation(pl)
  \/ \E pl \in SosPayloads : SocketSos(pl)
  \/ \E pl \in JournalPayloads : SocketJournal(pl)
  \/ \E pl \in MedPayloads : SocketMedicationUpdate(pl)

OtherRequest ==
  \/ \E ph \in Photos : UploadPerson(Str("Bob"), Str("son"), Str("555"), Str("u1"), ph)
  \/ \E sub \in Subscriptions : Subscribe(sub)

Next ==
  \/ Advance
  \/ Corrupt
  \/ Tick
  \/ Deliver
  \/ AuthRequest
  \/ MedsRequest
  \/ JournalRequest
  \/ AppointmentRequest
  \/ NotificationRequest
  \/ SocketEvent
  \/ OtherRequest

Spec == Init /\ [][Next]_vars

(***************************************************************************)
(* Parts of the server: the requests of one group of endpoints, with the   *)
(* clock.  Where reminders play no part the run ends when the first tick   *)
(* is due.                                                                 *)
(***************************************************************************)
NoKeys == {Str("")}

InitAuth == Boot(NoKeys, NoKeys, MaxAuthOps)
NextAuth == Advance \/ Corrupt \/ AuthRequest
SpecAuth == InitAuth /\ [][NextAuth]_vars

InitMeds == Boot(NoKeys, NoKeys, MaxMedsOps)
NextMeds == Advance \/ Corrupt \/ MedsRequest
SpecMeds == InitMeds /\ [][NextMeds]_vars

InitAppt == Boot(NoKeys, NoKeys, MaxApptOps)
NextAppt == Advance \/ Corrupt \/ Tick \/ AppointmentRequest
SpecAppt == InitAppt /\ [][NextAppt]_vars

\* every handler that creates a notification, the creation of an appointment
\* that the next tick reminds of, and the mark-read call; the run ends with
\* the first tick
InitNotif == Boot(NoKeys, NoKeys, MaxNotifOps)
NextNotif ==
  \/ AdvanceWithin(TICK_MS)
  \/ Tick
  \/ SocketSos([from |-> Str("u1"), name |-> Absent, time |-> Absent])
  \/ \E pl \in JournalPayloads : SocketJournal(pl)
  \/ \E pl \in MedPayloads : SocketMedicationUpdate(pl)
  \/ PostJournals(Str("Ann"), Str("hi"))
  \/ PostSos(Str("u1"), Str("Ann"))
  \/ PostAppointments(Str("dentist"), Dec(clock + TICK_MS + StepMs), Undef, Undef)
  \/ GetNotifications
  \/ \E id \in ParamsOf(readDB(file).doc.notifications) : DeleteNotifications(id)
SpecNotif == InitNotif /\ [][NextNotif]_vars

\* the push dispatcher: subscriptions, calls and deliveries, under every
\* combination of the two keys
InitPush == Boot({Str(""), Str("pub")}, {Str(""), Str("priv")}, MaxPushOps)
NextPush ==
  \/ Advance
  \/ \E sub \in Subscriptions : Subscribe(sub)
  \/ PostSos(Str("u1"), Str("Ann"))
  \/ Deliver
SpecPush == InitPush /\ [][NextPush]_vars

\* the store: the file can become unreadable between two callbacks
InitStore == Boot(NoKeys, NoKeys, MaxStoreOps)
NextStore ==
  \/ Advance
  \/ Corrupt
  \/ Tick
  \/ GetMeds
  \/ GetJournals
  \/ GetAppointments
  \/ GetNotifications
  \/ \E em \in {Str("a@x"), Undef} : Register(Str("patient"), Str("Ann"), em, Str("pw"))
  \/ \E tm \in {Dec(clock + TICK_MS), Str("soon")} :
       PostAppointments(Str("dentist"), tm, Undef, Undef)
  \/ MarkMed(Dec(0), Str("u1"))
  \/ PostSos(Str("u1"), Str("Ann"))
SpecStore == InitStore /\ [][NextStore]_vars

\* every handler of the server, one or two inputs each, the socket events also
\* without a payload, and the timer
InitAll == Boot(NoKeys, NoKeys, MaxAllOps)
NextAll ==
  \/ AdvanceToTick
  \/ Corrupt
  \/ Tick
  \/ \E data \in {[userId |-> Str("u1")], Undef} : Join(data)
  \/ \E pl \in {[userId |-> Str("u1"), lat |-> Num(1), lng |-> Num(2), timestamp |-> Absent],
                 Undef} : UpdateLocation(pl)
  \/ \E pl \in {[from |-> Str("u1"), name |-> Absent, time |-> Absent], Undef} : SocketSos(pl)
  \/ \E pl \in JournalPayloads \cup {Undef} : SocketJournal(pl)
  \/ \E pl \in MedPayloads \cup {Undef} : SocketMedicationUpdate(pl)
  \/ Register(Str("patient"), Str("Ann"), Str("a@x"), Str("pw"))
  \/ Login(Str("a@x"), Str("pw"))
  \/ UploadPerson(Str("Bob"), Str("son"), Str("555"), Str("u1"), Null)
  \/ GetMeds
  \/ PostMeds(Str("aspirin"), Str("1 pill"), Str("08:00"), Undef)
  \/ \E id \in ParamsOf(readDB(file).doc.meds) : DeleteMeds(id)
  \/ MarkMed(Dec(0), Str("u1"))
  \/ GetJournals
  \/ PostJournals(Str("Ann"), Str("hi"))
  \/ GetAppointments
  \/ PostAppointments(Str("dentist"), Dec(clock + TICK_MS + StepMs), Undef, Undef)
  \/ \E id \in ParamsOf(readDB(file).doc.appointments) : DeleteAppointments(id)
  \/ GetNotifications
  \/ \E id \in ParamsOf(readDB(file).doc.notifications) : DeleteNotifications(id)
  \/ PostSos(Str("u1"), Str("Ann"))
  \/ Subscribe([endpoint |-> Str("e1")])
SpecAll == InitAll /\ [][NextAll]_vars

\* the same, where the event loop runs every callback that is ready
SpecAllFair == SpecAll /\ WF_vars(NextAll)

\* the reminder runner over several periods, its callback on time or late
InitRemind == Boot(NoKeys, NoKeys, MaxRemindOps)
NextRemind ==
  \/ AdvanceLate
  \/ Tick
  \/ LateTick
  \/ \E tm \in {Num(clock + StepMs), Num(clock + TICK_MS), Dec(clock + TICK_MS + StepMs)} :
       PostAppointments(Str("dentist"), tm, Undef, Undef)
SpecRemind == InitRemind /\ [][NextRemind]_vars

(***************************************************************************)
(* Properties                                                              *)
(***************************************************************************)
\* the step is the handling of the request `name`
Handled(name) == ops' = ops - 1 /\ out'[1].name = name
\* the document a handler that starts now loads
Stored == readDB(file).doc
Last(q) == q[Len(q)]
Ids(q) == {Get(q[i].id) : i \in 1..Len(q)}

\* the step is POST /register for the email of a stored user
DuplicateRegister ==
  /\ Handled("POST /register")
  /\ \E i \in 1..Len(Stored.users) : Get(Stored.users[i].email) = out'[1].x.email

\* C2: POST /register with the email of a user already in the Store answers
\* with a failure and leaves the users sequence as it was
C2_DuplicateRegisterRejected ==
  [][DuplicateRegister =>
       /\ Last(out').k = "res"
       /\ Last(out').code >= BAD_REQUEST
       /\ Last(out').x.message = Str("Email already exists")
       /\ file'.ok
       /\ Len(file'.doc.users) = Len(Stored.users)
       /\ file'.doc.users = Stored.users]_vars

\* C2 witness: a registration was rejected while two users are stored
C2_Witness ==
  /\ Len(out) = 3
  /\ out[1].name = "POST /register"
  /\ out[3].code = BAD_REQUEST
  /\ file.ok
  /\ Len(file.doc.users) = 2
  /\ \E i \in 1..2 : Get(file.doc.users[i].email) = out[1].x.email

\* C10 as stated: the rejection of a duplicate registration carries status 409
C10_DuplicateRegisterIs409 ==
  [][DuplicateRegister => Last(out').code = 409]_vars

\* C10 amended: the rejection of a duplicate registration carries status 400,
\* the status POST /login gives a credential mismatch; the message tells them apart
C10_DuplicateRegisterIs400 ==
  [][/\ DuplicateRegister =>
          /\ Last(out').code = 400
          /\ Last(out').x.message = Str("Email already exists")
     /\ (Handled("POST /login") /\ Last(out').code # OK) =>
          /\ Last(out').code = 400
          /\ Last(out').x.message = Str("Invalid credentials")]_vars

\* C10 witness: a duplicate registration of a@x was answered with 400
C10_Witness ==
  /\ Len(out) = 3
  /\ out[1].name = "POST /register"
  /\ out[1].x.email = Str("a@x")
  /\ out[3].k = "res"
  /\ out[3].code = 400
  /\ out[2].code = 0
  /\ \E i \in 1..Len(out[2].x.users) : out[2].x.users[i].email = Str("a@x")

\* C3: DELETE /meds/:id removes exactly the medications of that id: the ids
\* left are the former ids without it, and the other medications stay, in order
C3_DeleteMedsRemovesThatId ==
  [][Handled("DELETE /meds/:id") =>
       LET id == out'[1].x
           before == Stored.meds
           after == file'.doc.meds
       IN /\ file'.ok
          /\ Ids(after) = Ids(before) \ {id}
          /\ after = SelectSeq(before, LAMBDA m : m.id # id)]_vars

\* C3 witness: a DELETE /meds/:id removed a medication and left two others
C3_Witness ==
  /\ Len(out) = 5
  /\ out[1].name = "DELETE /meds/:id"
  /\ file.ok
  /\ Len(file.doc.meds) = 2
  /\ Len(out[2].x.meds) > 2
  /\ \E i \in 1..Len(out[2].x.meds) : out[2].x.meds[i].id = out[1].x

\* C1: an appointment created by POST /appointments with its time after its
\* creation, and still stored, has been the subject of an appointmentReminder
\* of a tick with time - 60000 <= now < time once the clock has reached its
\* time (later ticks have now >= time)
C1_ReminderBeforeDue ==
  file.ok =>
    \A i \in 1..Len(file.doc.appointments) :
      LET a == file.doc.appointments[i]
      IN (a.time.t = "number" /\ a.time.n > a.createdAt.n /\ clock >= a.time.n) =>
           \E r \in reminders :
             /\ r.appointment = a
             /\ r.now >= a.time.n - TICK_MS
             /\ r.now < a.time.n

\* C8: a document handed to writeDB is read back equal, field for field
C8_SaveLoadRoundTrip ==
  \A j \in 1..Len(out) :
    out[j].k = "save" => readDB(writeDB(out[j].x)).doc = out[j].x

\* C4 as stated: DELETE /notifications/:id, called with the id of a stored
\* notification as the URL carries it, leaves that notification read
C4_MarkReadMarksEveryKind ==
  [][Handled("DELETE /notifications/:id") =>
       \A i \in 1..Len(Stored.notifications) :
         ParamOf(Stored.notifications[i].id) = out'[1].x =>
           /\ file'.ok
           /\ Len(file'.doc.notifications) >= i
           /\ file'.doc.notifications[i].read = True]_vars

\* C5: DELETE /notifications/:id changes only the read field of the
\* notifications whose id matches: same length and order, every other field
\* as before, the notifications of another id as before, every other
\* sequence of the document as before
C5_MarkReadChangesOnlyRead ==
  [][Handled("DELETE /notifications/:id") =>
       LET before == Stored.notifications
           after == file'.doc.notifications
       IN /\ file'.ok
          /\ Len(after) = Len(before)
          /\ \A i \in 1..Len(before) :
               /\ [after[i] EXCEPT !.read = before[i].read] = before[i]
               /\ after[i].read \in {before[i].read, True}
               /\ before[i].id # out'[1].x => after[i] = before[i]
          /\ \A f \in DOMAIN Stored \ {"notifications"} : file'.doc[f] = Stored[f]]_vars

\* C5 witness: a mark-read call turned the read flag of one of two notifications
C5_Witness ==
  /\ Len(out) = 4
  /\ out[1].name = "DELETE /notifications/:id"
  /\ file.ok
  /\ Len(file.doc.notifications) = 2
  /\ \E i, j \in 1..2 :
       /\ out[2].x.notifications[i].read = False
       /\ file.doc.notifications[i].read = True
       /\ file.doc.notifications[j].read = False

BothKeys == Truthy(VAPID_PUBLIC) /\ Truthy(VAPID_PRIVATE)
Settled(c) == \A k \in 1..Len(c.delivery) : c.delivery[k] \in {"fulfilled", "rejected"}

\* C6: with both keys set, a dispatch reads the N stored subscriptions and
\* calls sendNotification once for each, whatever deliveries fail; its promise
\* is never rejected, and is fulfilled exactly when all N deliveries settled
C6_DispatchAttemptsAllAndSettles ==
  [][BothKeys =>
       /\ \A i \in 1..Len(pushes') :
            LET c == pushes'[i]
            IN /\ Len(c.attempts) = Len(c.subs)
               /\ Len(c.delivery) = Len(c.subs)
               /\ \A k \in 1..Len(c.subs) : c.attempts[k] = 1
               /\ c.promise # "rejected"
               /\ c.promise = "fulfilled" <=> Settled(c)
       /\ Len(pushes') > Len(pushes) =>
            /\ file'.ok
            /\ Last(pushes').subs = file'.doc.webpushSubscriptions]_vars

\* C6 witness: a dispatch to two subscriptions is complete, one delivery
\* having failed and the other not
C6_Witness ==
  /\ BothKeys
  /\ \E i \in 1..Len(pushes) :
       /\ Len(pushes[i].subs) = 2
       /\ pushes[i].delivery = <<"rejected", "fulfilled">>
       /\ pushes[i].attempts = <<1, 1>>
       /\ pushes[i].promise = "fulfilled"

\* C7: without both keys a dispatch calls sendNotification for no
\* subscription, does not fail, and leaves the file as it found it
C7_DispatchWithoutKeysIsNoOp ==
  ~BothKeys =>
    /\ \A j \in 1..Len(out) :
         out[j].k = "push" =>
           /\ out[j].x.after = out[j].x.before
           /\ Len(out[j].x.call.attempts) = Len(out[j].x.call.subs)
           /\ \A k \in 1..Len(out[j].x.call.subs) : out[j].x.call.attempts[k] = 0
           /\ out[j].x.call.promise = "fulfilled"
    /\ \A i \in 1..Len(pushes) :
         /\ \A k \in 1..Len(pushes[i].subs) :
              pushes[i].attempts[k] = 0 /\ pushes[i].delivery[k] = "none"
         /\ pushes[i].promise = "fulfilled"

\* C7 witness: a dispatch ran with one key missing and two subscriptions stored
C7_Witness ==
  /\ Truthy(VAPID_PUBLIC)
  /\ ~Truthy(VAPID_PRIVATE)
  /\ \E j \in 1..Len(out) :
       /\ out[j].k = "push"
       /\ Len(out[j].x.call.subs) = 2
       /\ out[j].x.call.attempts = <<0, 0>>
       /\ out[j].x.after.doc.webpushSubscriptions = out[j].x.call.subs

\* the step is a callback that loads the store
Loads(tr) == {j \in 1..Len(tr) : tr[j].k = "load"}
FirstLoad(tr) == tr[CHOOSE j \in Loads(tr) : \A i \in Loads(tr) : j <= i]
LoadingStep == (ops' # ops \/ nextTick' # nextTick) /\ Loads(out') # {}

\* C9: when database.json is absent or unparsable, load returns the document
\* whose nine sequences are empty and writes it over the file: the file is
\* readable again and holds nothing but what the loading callback added
C9_UnreadableStoreIsReset ==
  [][(~file.ok /\ LoadingStep) =>
       /\ FirstLoad(out').code = 1
       /\ \A f \in SeqFields : FirstLoad(out').x[f] = <<>>
       /\ file'.ok
       /\ \A f \in SeqFields : Len(file'.doc[f]) <= 1
       /\ (\A j \in 1..Len(out') : out'[j].k # "save") =>
            /\ \A f \in SeqFields : file'.doc[f] = <<>> /\ db'[f] = <<>>
            /\ ~file'.doc.medHistory.present]_vars

\* C9 witness: a notification was stored and pushed, and after the file became
\* unreadable GET /notifications loaded the empty document and answered []
C9_Witness ==
  /\ Len(pushes) >= 1
  /\ Len(out) = 3
  /\ out[1].name = "GET /notifications"
  /\ out[2].code = 1
  /\ out[3].x = <<>>
  /\ file.ok
  /\ file.doc.notifications = <<>>

(***************************************************************************)
(* The reminder scanner                                                    *)
(***************************************************************************)
\* the events of one kind and name in a trace, in order
Events(tr, k, name) == SelectSeq(tr, LAMBDA ev : ev.k = k /\ ev.name = name)
\* the step is a run of the timer callback
TickStep == nextTick' # nextTick /\ out'[1].name = "tick"
\* the stored appointments a tick at `now` has to remind of
Due(now) ==
  SelectSeq(Stored.appointments,
            LAMBDA a : a.time.t = "number" /\ now < a.time.n /\ a.time.n <= now + 60000)

\* C12: a tick at `now` reminds of exactly the stored appointments with
\* now < time <= now + 60000, in order: for each, one notification of type
\* 'appointment' is appended and persisted, one appointmentReminder and one
\* notification are broadcast and the push dispatcher is called once; nothing
\* of this happens for any other appointment
C12_TickRemindsExactlyTheWindow ==
  [][TickStep =>
       LET due == Due(clock)
           rem == Events(out', "emit", "appointmentReminder")
           notes == Events(out', "emit", "notification")
           calls == Events(out', "push", "")
       IN /\ Len(rem) = Len(due)
          /\ Len(notes) = Len(due)
          /\ Len(calls) = Len(due)
          /\ Len(pushes') = Len(pushes) + Len(due)
          /\ \A i \in 1..Len(due) :
               /\ rem[i].x = [appointment |-> due[i]]
               /\ notes[i].x.type = Str("appointment")
               /\ notes[i].x.appointment = due[i]
               /\ notes[i].x.read = False
               /\ calls[i].x.payload = notes[i].x
               /\ pushes'[Len(pushes) + i].payload = notes[i].x
          /\ file'.ok
          /\ file'.doc.notifications =
               Stored.notifications \o [i \in 1..Len(due) |-> JSONValue(notes[i].x)]
          /\ file'.doc.appointments = Stored.appointments
          /\ reminders' =
               reminders \cup {[appointment |-> due[i], now |-> clock] : i \in 1..Len(due)}]_vars

\* C12 witness: a tick reminded of the appointment whose time is now + 60000
\* and not of the stored appointment whose time is now
C12_Witness ==
  /\ Len(out) > 2
  /\ out[1].name = "tick"
  /\ out[1].x = Num(clock)
  /\ file.ok
  /\ Len(file.doc.appointments) = 2
  /\ Len(file.doc.notifications) = 1
  /\ \E i, j \in 1..2 :
       /\ file.doc.appointments[i].time = Num(clock)
       /\ file.doc.appointments[j].time = Num(clock + 60000)
       /\ Events(out, "emit", "appointmentReminder") =
            <<Emit("appointmentReminder", [appointment |-> file.doc.appointments[j]])>>
       /\ file.doc.notifications[1].appointment = file.doc.appointments[j]

\* C18: once DELETE /appointments/:id has answered, the file holds no
\* appointment of that id, and no later tick broadcasts an appointmentReminder
\* or stores or broadcasts a notification for an appointment it removed, also
\* when the time of that appointment is in the window of the tick
C18_DeletedAppointmentNeverReminded ==
  [][/\ Handled("DELETE /appointments/:id") =>
          /\ Last(out').k = "res"
          /\ file'.ok
          /\ \A i \in 1..Len(file'.doc.appointments) :
               file'.doc.appointments[i].id # out'[1].x
     /\ TickStep =>
          \A a \in deleted :
            /\ \A j \in 1..Len(out') :
                 /\ out'[j].k = "emit" /\ out'[j].name = "appointmentReminder" =>
                      out'[j].x.appointment # a
                 /\ out'[j].k = "emit" /\ out'[j].name = "notification" =>
                      out'[j].x.appointment # a
                 /\ out'[j].k = "push" => out'[j].x.payload.appointment # a
            /\ \A i \in Len(Stored.notifications) + 1..Len(file'.doc.notifications) :
                 file'.doc.notifications[i].appointment # a
            /\ [appointment |-> a, now |-> clock] \notin reminders']_vars

\* C18 witness: a tick ran with the time of a deleted appointment in its
\* window, and reminded of nothing
C18_Witness ==
  /\ Len(out) = 2
  /\ out[1].name = "tick"
  /\ out[1].x = Num(clock)
  /\ out[2].code = 0
  /\ reminders = {}
  /\ \E a \in deleted : a.time.t = "number" /\ clock < a.time.n /\ a.time.n <= clock + 60000

\* C13: the runs of the timer callback are at least 60000 ms apart, and two
\* appointmentReminder broadcasts for one appointment never come from ticks
\* 60000 ms or more apart: over a run no appointment is reminded of by two ticks
C13_NoSecondReminder ==
  [][/\ TickStep /\ out # <<>> /\ out[1].name = "tick" => clock >= out[1].x.n + 60000
     /\ \A r1, r2 \in reminders' :
          r1.appointment = r2.appointment => r1.now - r2.now < 60000
     /\ TickStep =>
          \A r \in reminders : [appointment |-> r.appointment, now |-> clock] \notin reminders']_vars

\* C13 witness: a late tick ran more than a period after the tick that reminded
\* of an appointment still stored, and that appointment has one reminder
C13_Witness ==
  /\ out # <<>>
  /\ out[1].name = "tick"
  /\ file.ok
  /\ \E i \in 1..Len(file.doc.appointments) :
       LET a == file.doc.appointments[i]
       IN /\ Cardinality({r \in reminders : r.appointment = a}) = 1
          /\ \E r \in reminders : r.appointment = a /\ out[1].x.n > r.now + 60000

(***************************************************************************)
(* Callbacks and the store                                                 *)
(***************************************************************************)
\* the step is a callback: a request handled, or a run of the timer callback
CallbackStep == ops' # ops \/ nextTick' # nextTick
AllFields == SeqFields \cup {"medHistory"}
Records(d, f) == IF f = "medHistory" THEN d.medHistory.items ELSE d[f]
\* a record as the file holds it, its read flag left aside
Unread(v) == LET w == JSONValue(v) IN IF "read" \in DOMAIN w THEN [w EXCEPT !.read = False] ELSE w
Count(q, v) == Cardinality({i \in 1..Len(q) : Unread(q[i]) = v})
\* the callback of trace tr was asked to delete the record v of sequence f
Asked(tr, f, v) ==
  \/ f = "meds" /\ tr[1].name = "DELETE /meds/:id" /\ v.id = tr[1].x
  \/ f = "appointments" /\ tr[1].name = "DELETE /appointments/:id" /\ v.id = tr[1].x
\* a record of the document prev is missing from the document next
LostBetween(prev, next, tr) ==
  \E f \in AllFields : \E i \in 1..Len(Records(prev, f)) :
    LET v == Unread(Records(prev, f)[i])
    IN Count(Records(next, f), v) < Count(Records(prev, f), v) /\ ~Asked(tr, f, v)
\* the loads and saves of a callback, and their documents, in order
Accesses(tr) == SelectSeq(tr, LAMBDA ev : ev.k \in {"load", "save"})
Docs(tr) == [j \in 1..Len(Accesses(tr)) |-> Accesses(tr)[j].x]
\* A callback found the file readable, and a document it loaded or saved, or
\* the file it left, lacks a record of the document before it: of the file
\* as earlier callbacks left it, or of an earlier save of its own
LostUpdateStep ==
  /\ CallbackStep
  /\ file.ok
  /\ LET ds == <<file.doc>> \o Docs(out') \o <<file'.doc>>
     IN \E j \in 1..Len(ds) - 1 : LostBetween(ds[j], ds[j + 1], out')

\* the last callback found the file readable and lost a record of the
\* document it loaded
LostUpdate ==
  /\ Len(Docs(out)) > 0
  /\ Accesses(out)[1].code = 0
  /\ \E j \in 1..Len(Docs(out)) - 1 : LostBetween(Docs(out)[j], Docs(out)[j + 1], out)

C14_SaveThenBroadcastThenPush ==
  [][CallbackStep =>
       \A i, j \in 1..Len(out') :
         i < j =>
           /\ ~(out'[i].k = "emit" /\ out'[j].k = "save")
           /\ ~(out'[i].k = "push" /\ out'[j].k \in {"emit", "save"})]_vars

\* the broadcast j of the trace relays the payload of socket medicationUpdate
Relay(tr, j) == tr[1].name = "socket medicationUpdate" /\ tr[j].name = "medicationUpdate"
\* the last store access before position j of the trace, 0 if there is none
LastAccess(tr, j) ==
  LET before == {i \in 1..j - 1 : tr[i].k \in {"load", "save"}}
  IN IF before = {} THEN 0 ELSE CHOOSE i \in before : \A h \in before : h <= i

\* C14 amended: every broadcast, except the relay of its payload by socket
\* medicationUpdate, comes after a save of the same callback, the last store
\* access before it; every push dispatcher call comes right after the
\* 'notification' broadcast of its notification. A callback that stores two
\* records (the journal handlers, a tick with several appointments) saves
\* again after the broadcast of the first.
C14_EachSaveBeforeItsBroadcast ==
  [][CallbackStep =>
       \A j \in 1..Len(out') :
         /\ (out'[j].k = "emit" /\ ~Relay(out', j)) =>
              /\ LastAccess(out', j) > 0
              /\ out'[LastAccess(out', j)].k = "save"
         /\ out'[j].k = "push" =>
              /\ out'[j - 1] = Emit("notification", out'[j].x.payload)
              /\ out'[LastAccess(out', j)].k = "save"
              /\ Last(out'[LastAccess(out', j)].x.notifications) = out'[j].x.payload]_vars

\* C14 witness: socket medicationUpdate broadcast its payload, then loaded and
\* saved the store, then broadcast the notification and called the dispatcher
C14_Witness ==
  /\ Len(out) = 7
  /\ out[1].name = "socket medicationUpdate"
  /\ out[2].k = "emit"
  /\ out[3].k = "load"
  /\ out[4].k = "save"
  /\ out[5] = Emit("notification", Last(out[4].x.notifications))
  /\ out[6].k = "push"
  /\ out[6].x.payload = out[5].x

(***************************************************************************)
(* What the store keeps                                                    *)
(***************************************************************************)
Prefix(q1, q2) == Len(q1) <= Len(q2) /\ SubSeq(q2, 1, Len(q1)) = q1
\* the sequence without its read flags
Flagless(q) == [i \in 1..Len(q) |-> [q[i] EXCEPT !.read = False]]

\* C15: while the file stays readable, every step leaves users, patients,
\* journals, locationHistory, medHistory and webpushSubscriptions extended,
\* notifications extended up to read flags; meds and appointments are extended
\* by every step but those of their own DELETE endpoint
C15_NothingLostButByDelete ==
  [][(file.ok /\ file'.ok) =>
       /\ \A f \in {"users", "patients", "journals", "locationHistory", "webpushSubscriptions"} :
            Prefix(file.doc[f], file'.doc[f])
       /\ Prefix(file.doc.medHistory.items, file'.doc.medHistory.items)
       /\ file.doc.medHistory.present => file'.doc.medHistory.present
       /\ Prefix(Flagless(file.doc.notifications), Flagless(file'.doc.notifications))
       /\ ~Handled("DELETE /meds/:id") => Prefix(file.doc.meds, file'.doc.meds)
       /\ ~Handled("DELETE /appointments/:id") =>
            Prefix(file.doc.appointments, file'.doc.appointments)]_vars

\* C15 witness: DELETE /notifications/:id found one unread notification and
\* left it stored, read
C15_Witness ==
  /\ Len(out) = 4
  /\ out[1].name = "DELETE /notifications/:id"
  /\ out[2].code = 0
  /\ Len(out[2].x.notifications) = 1
  /\ out[2].x.notifications[1].read = False
  /\ file.ok
  /\ Len(file.doc.notifications) = 1
  /\ file.doc.notifications[1] = [out[2].x.notifications[1] EXCEPT !.read = True]

(***************************************************************************)
(* The outcome of a handler                                                *)
(***************************************************************************)
RequestStep == ops' # ops
DeleteNames == {"DELETE /meds/:id", "DELETE /appointments/:id", "DELETE /notifications/:id"}
\* the sequence a DELETE endpoint works on
DeleteField(name) ==
  CASE name = "DELETE /meds/:id" -> "meds"
    [] name = "DELETE /appointments/:id" -> "appointments"
    [] OTHER -> "notifications"
\* the failure answers of POST /register and POST /login
Rejected(tr) ==
  /\ tr[1].name \in {"POST /register", "POST /login"}
  /\ Last(tr).k = "res"
  /\ Last(tr).code = BAD_REQUEST

\* C16: every handler but a rejected register or login completes: no socket
\* or HTTP handler throws, every HTTP handler answers with success, and a
\* DELETE with an id that matches no record answers { ok: true } and leaves
\* its sequence as it was
C16_EveryOtherHandlerSucceeds ==
  [][RequestStep =>
       /\ \A j \in 1..Len(out') : out'[j].k # "throw"
       /\ (out'[1].name \notin {"socket join", "socket updateLocation", "socket sos",
                                "socket journal", "socket medicationUpdate"}
            /\ ~Rejected(out')) =>
              Last(out').k = "res" /\ Last(out').code = OK
       /\ out'[1].name \in DeleteNames =>
            /\ Last(out').x = [ok |-> True]
            /\ file'.ok
            /\ (\A i \in 1..Len(Stored[DeleteField(out'[1].name)]) :
                   Stored[DeleteField(out'[1].name)][i].id # out'[1].x) =>
                 file'.doc[DeleteField(out'[1].name)] = Stored[DeleteField(out'[1].name)]]_vars

(***************************************************************************)
(* The file at a point of a callback                                       *)
(***************************************************************************)
\* database.json before step j of the trace tr of a callback that found the
\* file f: what the last load or save before j left
PersistedAt(tr, j, f) ==
  LET a == LastAccess(tr, j)
  IN IF a = 0 THEN f
     ELSE IF tr[a].k = "save" THEN writeDB(tr[a].x)
     ELSE IF tr[a].code = 1 THEN writeDB(EmptyDoc)
     ELSE [ok |-> TRUE, doc |-> tr[a].x]

\* C17: when a callback broadcasts 'notification', the file at that moment is
\* readable and its notifications sequence holds the notification broadcast,
\* as its last element; the file the callback leaves still holds it
C17_NotificationStoredWhenBroadcast ==
  [][CallbackStep =>
       /\ file' = PersistedAt(out', Len(out') + 1, file)
       /\ \A j \in 1..Len(out') :
            (out'[j].k = "emit" /\ out'[j].name = "notification") =>
              LET at == PersistedAt(out', j, file)
              IN /\ at.ok
                 /\ Len(at.doc.notifications) > 0
                 /\ Last(at.doc.notifications) = JSONValue(out'[j].x)
                 /\ \E i \in 1..Len(file'.doc.notifications) :
                      file'.doc.notifications[i] = JSONValue(out'[j].x)]_vars

\* C17 witness: a tick broadcast two notifications; the file held one
\* notification at the first broadcast and holds both now
C17_Witness ==
  /\ Len(out) = 12
  /\ out[1].name = "tick"
  /\ out[3].k = "save"
  /\ Len(out[3].x.notifications) = 1
  /\ out[5] = Emit("notification", out[3].x.notifications[1])
  /\ out[10].k = "emit"
  /\ out[10].name = "notification"
  /\ file.ok
  /\ Len(file.doc.notifications) = 2
  /\ file.doc.notifications[1] = JSONValue(out[5].x)
  /\ file.doc.notifications[2] = JSONValue(out[10].x)

====
